---- MODULE Spec2Model ----
(***************************************************************************)
(* Model of the Topology & Diagnostic Reasoning Engine of                  *)
(* aksarc-foundrylocal-aiops.                                              *)
(*                                                                         *)
(*   Spec      the ReasoningLoop (backend/src/reasoning/loop.py) with its  *)
(*             start()/stop() callers and its background asyncio tasks.    *)
(*   SpecApi   Spec together with the result queries of                    *)
(*             backend/src/api/v1/reasoning.py.                            *)
(*   SpecTopo  TopologyGraphBuilder.build_topology                         *)
(*             (backend/src/reasoning/topology_analyzer.py) applied to     *)
(*             bounded resource listings.                                  *)
(*   SpecFlow  build_topology applied to listings whose pods declare ports *)
(*             and labels and whose policies carry rules.                  *)
(*   SpecDiag  DiagnosticRunner.run_all_checks                             *)
(*             (backend/src/diagnostics/runner.py) on built graphs.        *)
(*   SpecReport DiagnosticReport.add_check                                 *)
(*             (backend/src/models/diagnostic_result.py).                  *)
(*   SpecCtx   ContextBuffer (backend/src/services/context.py).            *)
(*   SpecWatch cluster_watcher (backend/src/main.py) and the status route  *)
(*             polling KubernetesClient.get_cluster_status.                *)
(*   SpecEvents ContextBuffer.get_events_by_type on snapshots with events. *)
(*   SpecTick  Spec with cycle durations around the interval;              *)
(*             SpecTickFair adds weak fairness of the tasks' steps.        *)
(*   SpecPeer  build_topology on policies whose ingress rules name peers.  *)
(*   SpecLife  the application from startup to the end of the lifespan's   *)
(*             shutdown: loop, watcher and lifespan together.              *)
(*                                                                         *)
(* An asyncio task runs atomically between two suspension points, so every *)
(* action of Spec is the code between two awaits.  task.cancel() makes the *)
(* task's next step raise CancelledError at the await it is suspended at.  *)
(***************************************************************************)
EXTENDS Naturals, Integers, Sequences, FiniteSets, TLC

VARIABLES
    running,              \* ReasoningLoop._running
    task,                 \* ReasoningLoop._task: id of the Task object, 0 = None
    pc,                   \* per task: the await the coroutine is suspended at
    cancelReq,            \* per task: cancel() was called and not yet delivered
    finished,             \* tasks whose coroutine has ended (Task.done())
    phase,                \* ReasoningLoop.phase
    last_observation,     \* tick that built the retained Observation, 0 = None
    last_reasoning,       \* [tick, health] of the retained Reasoning
    last_action_plan,     \* tick that built the retained ActionPlan, 0 = None
    tick,                 \* number of ticks begun so far
    cur,                  \* per task: the tick it is executing
    stopWaiting,          \* tasks some stop() call is awaiting
    stopped,              \* history: a stop() returned, no start() since it began
    lastOp,               \* history: the last step was a start(), a stop(), a step
                          \*          that entered _act, or another step
    wasRunning,           \* history: _running as seen by the last start()/stop()
    observeFailed,        \* history: the latest Observe phase raised
    tickCompleted,        \* history: some tick reached its end-of-cycle sleep
    resp,                 \* history: the last HTTP answer of a result query
    timing,               \* history: cycle_duration and sleep argument of the step just taken
    durations,            \* the cycle durations the cluster's answers can take
    listing,              \* SpecTopo: the five resource listings and their outcome
    topo,                 \* SpecTopo: what build_topology produced
    diag,                 \* SpecDiag: outcome of the last two run_all_checks calls
    report,               \* SpecReport: a DiagnosticReport filled by add_check
    buffer,               \* SpecCtx: the ContextBuffer
    now,                  \* SpecCtx: the wall clock, in hours
    added,                \* SpecCtx: add() calls so far; numbers the snapshots
    recent,               \* SpecCtx: what the query just made on the buffer returned
    poll,                 \* SpecWatch: per caller of get_cluster_status, the await it is at
    life                  \* SpecLife: the lifespan's position, the client's _connected
                          \*           flag, the watcher's pending cancellation

loopVars == <<running, task, pc, cancelReq, finished, phase, last_observation,
              last_reasoning, last_action_plan, tick, cur, stopWaiting>>
histVars == <<stopped, lastOp, wasRunning, observeFailed, tickCompleted, resp,
              timing, durations>>
topoVars == <<listing, topo>>
diagVars == <<diag, report>>
ctxVars == <<buffer, now, added, recent>>
appVars == <<poll, life>>
dataVars == <<topoVars, diagVars, ctxVars, appVars>>
vars == <<loopVars, histVars, dataVars>>

(***************************************************************************)
(* Bounds                                                                  *)
(***************************************************************************)
MaxTasks == 2       \* effective start() calls, each creating one Task
MaxTicks == 2       \* ticks begun over the life of the loop
MaxPods == 2        \* pods in the pod listing

Tasks == 1..MaxTasks

\* ReasoningLoop(..., interval_seconds=60): self.interval, in seconds.
Interval == 60

None == "<none>"

(***************************************************************************)
(* loop.py: LoopPhase, and the retained results                            *)
(***************************************************************************)
LoopPhase == {"observe", "reason", "act", "idle"}

NoReasoning == [tick |-> 0, health |-> None]

Health == {"pass", "warn", "fail"}

\* Suspension points of _loop: not yet run, build_topology, run_all_checks,
\* the end-of-cycle sleep, and the sleep of the exception handler.
PcValues == {"none", "created", "observe", "reason", "sleep", "backoff"}

Alive(t) == pc[t] # "none" /\ t \notin finished

InTick(t) == Alive(t) /\ pc[t] \in {"observe", "reason"}

NumTasks == Cardinality({t \in Tasks : pc[t] # "none"})

(***************************************************************************)
(* ReasoningLoop._loop: the sleeps                                         *)
(***************************************************************************)
\* cycle_duration, in whole seconds: the values around the interval.
Durations == {0, Interval - 1, Interval, Interval + 1}

Max(a, b) == IF a >= b THEN a ELSE b

\* The bare difference, without max(0, ...).
wait_timeUnclamped(cycle_duration) == Interval - cycle_duration

\* wait_time = max(0, self.interval - cycle_duration)
wait_time(cycle_duration) == Max(0, Interval - cycle_duration)

\* The wait of a cycle that took the whole interval: a retry at once.
backoff_timeImmediate == wait_time(Interval)

\* The argument of the sleep of _loop's exception handler.
backoff_time == Interval

\* No sleep was begun.
NoTiming == [slept |-> FALSE, cycle_duration |-> 0, seconds |-> 0]

\* `await asyncio.sleep(wait_time)` at the end of a cycle that took d seconds.
CycleEnd(d) == [slept |-> TRUE, cycle_duration |-> d, seconds |-> wait_time(d)]

\* `await asyncio.sleep(self.interval)` in the exception handler.
Backoff == [slept |-> TRUE, cycle_duration |-> 0, seconds |-> backoff_time]

\* Entering Act without looking at the report.
ActNeededAlways(overall_health) == TRUE

\* if reasoning.diagnostic_report.overall_health != DiagnosticStatus.PASS
ActNeeded(overall_health) == overall_health # "pass"

LoopInit ==
    /\ running = FALSE
    /\ task = 0
    /\ pc = [t \in Tasks |-> "none"]
    /\ cancelReq = [t \in Tasks |-> FALSE]
    /\ finished = {}
    /\ phase = "idle"
    /\ last_observation = 0
    /\ last_reasoning = NoReasoning
    /\ last_action_plan = 0
    /\ tick = 0
    /\ cur = [t \in Tasks |-> 0]
    /\ stopWaiting = {}
    /\ stopped = FALSE
    /\ lastOp = "init"
    /\ wasRunning = FALSE
    /\ observeFailed = FALSE
    /\ tickCompleted = FALSE
    /\ resp = [endpoint |-> None, code |-> 0, body |-> None]
    /\ timing = NoTiming

(***************************************************************************)
(* ReasoningLoop.start                                                     *)
(***************************************************************************)
StartDuplicating ==
    /\ NumTasks < MaxTasks
    /\ running' = TRUE
    /\ task' = NumTasks + 1
    /\ pc' = [pc EXCEPT ![NumTasks + 1] = "created"]
    /\ stopped' = FALSE
    /\ lastOp' = "start"
    /\ timing' = NoTiming
    /\ wasRunning' = running
    /\ UNCHANGED <<cancelReq, finished, phase, last_observation, last_reasoning,
                   last_action_plan, tick, cur, stopWaiting, observeFailed,
                   tickCompleted, resp, durations, dataVars>>

Start ==
    /\ lastOp' = "start"
    /\ timing' = NoTiming
    /\ wasRunning' = running
    /\ stopped' = FALSE
    /\ IF running
       THEN UNCHANGED <<loopVars>>
       ELSE /\ NumTasks < MaxTasks
            /\ running' = TRUE
            /\ task' = NumTasks + 1
            /\ pc' = [pc EXCEPT ![NumTasks + 1] = "created"]
            /\ UNCHANGED <<cancelReq, finished, phase, last_observation,
                           last_reasoning, last_action_plan, tick, cur,
                           stopWaiting>>
    /\ UNCHANGED <<observeFailed, tickCompleted, resp, durations, dataVars>>

(***************************************************************************)
(* ReasoningLoop.stop: up to `await self._task`, and its return            *)
(***************************************************************************)
\* stop() up to its `await self._task` or its return, for whichever caller.
stop ==
    /\ lastOp' = "stop"
    /\ timing' = NoTiming
    /\ wasRunning' = running
    /\ IF ~running
       THEN /\ stopped' = TRUE
            /\ UNCHANGED <<loopVars>>
       ELSE /\ running' = FALSE
            /\ IF task # 0
               THEN /\ cancelReq' = [cancelReq EXCEPT ![task] = task \notin finished]
                    /\ stopWaiting' = stopWaiting \cup {task}
                    /\ stopped' = stopped
               ELSE /\ stopped' = TRUE
                    /\ UNCHANGED <<cancelReq, stopWaiting>>
            /\ UNCHANGED <<task, pc, finished, phase, last_observation,
                           last_reasoning, last_action_plan, tick, cur>>
    /\ UNCHANGED <<observeFailed, tickCompleted, resp, durations,
                   topoVars, diagVars, ctxVars, poll>>

StopNotCancelling ==
    /\ lastOp' = "stop"
    /\ timing' = NoTiming
    /\ wasRunning' = running
    /\ running' = FALSE
    /\ stopped' = TRUE
    /\ UNCHANGED <<task, pc, cancelReq, finished, phase, last_observation,
                   last_reasoning, last_action_plan, tick, cur, stopWaiting,
                   observeFailed, tickCompleted, resp, durations, dataVars>>

Stop ==
    /\ stop
    /\ UNCHANGED life

\* `await self._task` ends for the caller that awaited task t, and stop()
\* returns to it.
stop_return(t) ==
    /\ t \in stopWaiting
    /\ t \in finished
    /\ stopWaiting' = stopWaiting \ {t}
    /\ stopped' = (stopped \/ task = t)
    /\ lastOp' = "step"
    /\ timing' = NoTiming
    /\ wasRunning' = FALSE
    /\ UNCHANGED <<running, task, pc, cancelReq, finished, phase, last_observation,
                   last_reasoning, last_action_plan, tick, cur,
                   observeFailed, tickCompleted, resp, durations,
                   topoVars, diagVars, ctxVars, poll>>

StopReturn(t) ==
    /\ stop_return(t)
    /\ UNCHANGED life

(***************************************************************************)
(* ReasoningLoop._loop, one action per stretch between two awaits          *)
(***************************************************************************)
\* CancelledError raised at the await the task is suspended at: `break` inside
\* the try, propagation out of the coroutine inside the exception handler, and
\* no code at all for a task that never ran.
Cancelled(t) ==
    /\ Alive(t)
    /\ cancelReq[t]
    /\ finished' = finished \cup {t}
    /\ cancelReq' = [cancelReq EXCEPT ![t] = FALSE]
    /\ lastOp' = "step"
    /\ timing' = NoTiming
    /\ wasRunning' = FALSE
    /\ UNCHANGED <<running, task, pc, phase, last_observation, last_reasoning,
                   last_action_plan, tick, cur, stopWaiting, stopped,
                   observeFailed, tickCompleted, resp, durations, dataVars>>

\* The same step with the retained results dropped when a tick begins.
LoopIterateForgetting(t) ==
    /\ Alive(t)
    /\ ~cancelReq[t]
    /\ pc[t] \in {"created", "sleep", "backoff"}
    /\ lastOp' = "step"
    /\ timing' = NoTiming
    /\ wasRunning' = FALSE
    /\ IF running
       THEN /\ tick < MaxTicks
            /\ tick' = tick + 1
            /\ cur' = [cur EXCEPT ![t] = tick + 1]
            /\ phase' = "observe"
            /\ pc' = [pc EXCEPT ![t] = "observe"]
            /\ last_observation' = 0
            /\ last_reasoning' = NoReasoning
            /\ last_action_plan' = 0
            /\ UNCHANGED finished
       ELSE /\ finished' = finished \cup {t}
            /\ UNCHANGED <<tick, cur, phase, pc, last_observation,
                           last_reasoning, last_action_plan>>
    /\ UNCHANGED <<running, task, cancelReq, stopWaiting, stopped,
                   observeFailed, tickCompleted, resp, durations, dataVars>>

\* `while self._running:` reached on the first run or after a sleep; when it
\* holds the tick begins and runs into _observe up to build_topology.
LoopIterate(t) ==
    /\ Alive(t)
    /\ ~cancelReq[t]
    /\ pc[t] \in {"created", "sleep", "backoff"}
    /\ lastOp' = "step"
    /\ timing' = NoTiming
    /\ wasRunning' = FALSE
    /\ IF running
       THEN /\ tick < MaxTicks
            /\ tick' = tick + 1
            /\ cur' = [cur EXCEPT ![t] = tick + 1]
            /\ phase' = "observe"
            /\ pc' = [pc EXCEPT ![t] = "observe"]
            /\ UNCHANGED finished
       ELSE /\ finished' = finished \cup {t}
            /\ UNCHANGED <<tick, cur, phase, pc>>
    /\ UNCHANGED <<running, task, cancelReq, last_observation, last_reasoning,
                   last_action_plan, stopWaiting, stopped,
                   observeFailed, tickCompleted, resp, durations, dataVars>>

\* build_topology returned or raised: _observe ends, `self.last_observation =
\* observation`, and _reason runs up to run_all_checks; an exception goes to
\* the handler of _loop, which sleeps the interval.
ObserveReturn(t) ==
    /\ Alive(t)
    /\ ~cancelReq[t]
    /\ pc[t] = "observe"
    /\ lastOp' = "step"
    /\ wasRunning' = FALSE
    /\ \E built \in BOOLEAN :
         /\ observeFailed' = ~built
         /\ IF built
            THEN /\ last_observation' = cur[t]
                 /\ phase' = "reason"
                 /\ pc' = [pc EXCEPT ![t] = "reason"]
                 /\ timing' = NoTiming
            ELSE /\ pc' = [pc EXCEPT ![t] = "backoff"]
                 /\ timing' = Backoff
                 /\ UNCHANGED <<last_observation, phase>>
    /\ UNCHANGED <<running, task, cancelReq, finished, last_reasoning,
                   last_action_plan, tick, cur, stopWaiting, stopped,
                   tickCompleted, resp, durations, dataVars>>

\* The same step with the `self.last_action_plan = None` of the healthy branch
\* left out.
ReasonReturnKeepingPlan(t) ==
    /\ Alive(t)
    /\ ~cancelReq[t]
    /\ pc[t] = "reason"
    /\ wasRunning' = FALSE
    /\ \E health \in Health, d \in durations :
         /\ last_reasoning' = [tick |-> cur[t], health |-> health]
         /\ IF ActNeeded(health)
            THEN /\ phase' = "act"
                 /\ lastOp' = "act"
                 /\ last_action_plan' = cur[t]
            ELSE /\ lastOp' = "step"
                 /\ UNCHANGED <<phase, last_action_plan>>
         /\ pc' = [pc EXCEPT ![t] = "sleep"]
         /\ timing' = CycleEnd(d)
         /\ tickCompleted' = TRUE
    /\ UNCHANGED <<running, task, cancelReq, finished, last_observation, tick,
                   cur, stopWaiting, stopped, observeFailed, resp,
                   durations, dataVars>>

\* run_all_checks returned a report or raised: _reason ends, `self.last_reasoning
\* = reasoning`; _act holds no await, so the Act phase and the bookkeeping up
\* to `await asyncio.sleep(wait_time)` belong to the same step.
ReasonReturn(t) ==
    /\ Alive(t)
    /\ ~cancelReq[t]
    /\ pc[t] = "reason"
    /\ wasRunning' = FALSE
    /\ \E outcome \in Health \cup {"raise"}, acted \in BOOLEAN, d \in durations :
         IF outcome = "raise"
         THEN /\ acted
              /\ lastOp' = "step"
              /\ pc' = [pc EXCEPT ![t] = "backoff"]
              /\ timing' = Backoff
              /\ UNCHANGED <<last_reasoning, last_action_plan, phase,
                             tickCompleted>>
         ELSE /\ last_reasoning' = [tick |-> cur[t], health |-> outcome]
              /\ IF ActNeeded(outcome)
                 THEN /\ phase' = "act"
                      /\ lastOp' = "act"
                      /\ IF acted
                         THEN /\ last_action_plan' = cur[t]
                              /\ pc' = [pc EXCEPT ![t] = "sleep"]
                              /\ timing' = CycleEnd(d)
                              /\ tickCompleted' = TRUE
                         ELSE /\ pc' = [pc EXCEPT ![t] = "backoff"]
                              /\ timing' = Backoff
                              /\ UNCHANGED <<last_action_plan, tickCompleted>>
                 ELSE /\ acted
                      /\ lastOp' = "step"
                      /\ last_action_plan' = 0
                      /\ pc' = [pc EXCEPT ![t] = "sleep"]
                      /\ timing' = CycleEnd(d)
                      /\ tickCompleted' = TRUE
                      /\ UNCHANGED phase
    /\ UNCHANGED <<running, task, cancelReq, finished, last_observation, tick,
                   cur, stopWaiting, stopped, observeFailed, resp,
                   durations, dataVars>>

(***************************************************************************)
(* ReasoningLoop.get_status and the result queries of api/v1/reasoning.py  *)
(***************************************************************************)
get_status ==
    [running |-> running,
     phase |-> phase,
     last_observation |-> last_observation,
     last_reasoning |-> last_reasoning,
     last_action_plan |-> last_action_plan]

get_last_observationMissing ==
    [endpoint |-> "last-observation", code |-> 200, body |-> "value"]

get_last_observation ==
    IF last_observation = 0
    THEN [endpoint |-> "last-observation", code |-> 404, body |-> "detail"]
    ELSE [endpoint |-> "last-observation", code |-> 200, body |-> "value"]

get_last_reasoning ==
    IF last_reasoning = NoReasoning
    THEN [endpoint |-> "last-reasoning", code |-> 404, body |-> "detail"]
    ELSE [endpoint |-> "last-reasoning", code |-> 200, body |-> "value"]

get_last_action_plan ==
    IF last_action_plan = 0
    THEN [endpoint |-> "last-action-plan", code |-> 200, body |-> "message"]
    ELSE [endpoint |-> "last-action-plan", code |-> 200, body |-> "value"]

Query ==
    /\ resp' \in {get_last_observation, get_last_reasoning, get_last_action_plan}
    /\ lastOp' = "step"
    /\ timing' = NoTiming
    /\ wasRunning' = FALSE
    /\ UNCHANGED <<loopVars, stopped, observeFailed, tickCompleted,
                   durations, dataVars>>

(***************************************************************************)
(* The resource listings handed to TopologyGraphBuilder                    *)
(***************************************************************************)
ListingNames == {"nodes", "pods", "services", "endpoints", "netpols"}

Range(seq) == {seq[i] : i \in 1..Len(seq)}

\* A listed node: its name, whether metadata.labels holds the control-plane
\* role label, and status.conditions.
ControlPlaneNode ==
    [name |-> "n1", control_plane |-> TRUE,
     conditions |-> <<[type |-> "Ready", status |-> "True"]>>]

WorkerNode ==
    [name |-> "n2", control_plane |-> FALSE,
     conditions |-> <<[type |-> "Ready", status |-> "True"]>>]

NodeLists == {<<>>, <<ControlPlaneNode>>, <<ControlPlaneNode, WorkerNode>>}

\* pod.spec.node_name and pod.status.pod_ip; a Pending pod has neither.
NodeNameChoices == {None, "n1", "n2"}
IpChoices == {None, "10.0.0.1", "10.0.0.2"}

\* The i-th listed pod: the API lists distinct (namespace, name) identities.
PodIdentities(i) ==
    CASE i = 1 -> {[namespace |-> "a", name |-> "b-c"]}
      [] i = 2 -> {[namespace |-> "a-b", name |-> "c"], [namespace |-> "a-b", name |-> "d"]}
      [] OTHER -> {[namespace |-> "a", name |-> "p" \o ToString(i)]}

PodChoices(i) ==
    { [namespace |-> id.namespace, name |-> id.name, node_name |-> nn, pod_ip |-> ip,
       phase |-> IF ip = None THEN "Pending" ELSE "Running",
       labels |-> {}, ports |-> <<>>] :
        id \in PodIdentities(i), nn \in NodeNameChoices, ip \in IpChoices }

PodLists ==
    UNION { { f \in [1..n -> UNION {PodChoices(i) : i \in 1..n}] :
                \A i \in 1..n : f[i] \in PodChoices(i) } :
            n \in 0..MaxPods }

ServiceLists ==
    {<<>>,
     <<[namespace |-> "a", name |-> "web", ports |-> <<80>>]>>,
     <<[namespace |-> "a", name |-> "web", ports |-> <<80>>],
       [namespace |-> "a-b", name |-> "web", ports |-> <<80>>]>>}

\* ep.subsets: each subset a list of addresses; 10.0.0.9 belongs to no pod.
SubsetChoices ==
    {<<>>, <<<<"10.0.0.1", "10.0.0.9">>>>, <<<<"10.0.0.2">>, <<"10.0.0.1">>>>}

EndpointsLists ==
    {<<>>}
    \cup { <<[namespace |-> "a", name |-> "web", subsets |-> s]>> :
             s \in SubsetChoices }
    \cup { <<[namespace |-> "a", name |-> "web", subsets |-> s],
             [namespace |-> "a-b", name |-> "web", subsets |-> r]>> :
             s \in SubsetChoices, r \in SubsetChoices }

\* A listed NetworkPolicy: spec.pod_selector.match_labels as a set of
\* <<key, value>> pairs, spec.policy_types, and the ports of each rule of
\* spec.ingress.
NetpolLists ==
    {<<>>,
     <<[namespace |-> "a", name |-> "deny", pod_selector |-> {},
        policy_types |-> <<"Ingress">>, ingress |-> <<>>]>>}

\* A listing that failed delivers no items.
ListingsWith(F) ==
    [failed : {F},
     nodes : IF "nodes" \in F THEN {<<>>} ELSE NodeLists,
     pods : IF "pods" \in F THEN {<<>>} ELSE PodLists,
     services : IF "services" \in F THEN {<<>>} ELSE ServiceLists,
     endpoints : IF "endpoints" \in F THEN {<<>>} ELSE EndpointsLists,
     netpols : IF "netpols" \in F THEN {<<>>} ELSE NetpolLists]

Listings == UNION { ListingsWith(F) : F \in SUBSET ListingNames }

EmptyListing ==
    [failed |-> {}, nodes |-> <<>>, pods |-> <<>>, services |-> <<>>,
     endpoints |-> <<>>, netpols |-> <<>>]

(***************************************************************************)
(* Listings with container ports, labels and policy rules                  *)
(***************************************************************************)
\* The container ports a pod declares, over all its containers.
PortLists == {<<>>, <<80>>, <<80, 443>>}

\* metadata.labels / match_labels as sets of <<key, value>> pairs.
LabelChoices == {{}, {<<"app", "web">>}}

FlowPodChoices(i) ==
    { [namespace |-> id.namespace, name |-> id.name, node_name |-> "n1",
       pod_ip |-> ip,
       phase |-> IF ip = None THEN "Pending" ELSE "Running",
       labels |-> lb, ports |-> ps] :
        id \in PodIdentities(i),
        ip \in {None, "10.0.0." \o ToString(i)},
        lb \in IF i = 1 THEN LabelChoices ELSE {{}},
        ps \in PortLists }

FlowPodLists ==
    UNION { { f \in [1..n -> UNION {FlowPodChoices(i) : i \in 1..n}] :
                \A i \in 1..n : f[i] \in FlowPodChoices(i) } :
            n \in 0..MaxPods }

\* rule.ports and rule.from_ of the rules of spec.ingress.
IngressRuleLists ==
    {<<>>,
     <<[ports |-> <<>>, from_ |-> <<>>]>>,
     <<[ports |-> <<80>>, from_ |-> <<>>]>>,
     <<[ports |-> <<8080>>, from_ |-> <<>>], [ports |-> <<443>>, from_ |-> <<>>]>>}

FlowNetpolChoices ==
    { [namespace |-> "a", name |-> "np1", pod_selector |-> sel,
       policy_types |-> ty, ingress |-> rules] :
        sel \in LabelChoices,
        ty \in {<<"Ingress">>, <<"Egress">>},
        rules \in IngressRuleLists }

SecondNetpol ==
    [namespace |-> "a", name |-> "np2", pod_selector |-> {},
     policy_types |-> <<"Ingress">>,
     ingress |-> <<[ports |-> <<443>>, from_ |-> <<>>]>>]

FlowNetpolLists ==
    {<<>>}
    \cup { <<np>> : np \in FlowNetpolChoices }
    \cup { <<np, SecondNetpol>> : np \in FlowNetpolChoices }

FlowListings ==
    [failed : {{}},
     nodes : {<<ControlPlaneNode>>},
     pods : FlowPodLists,
     services : {<<[namespace |-> "a", name |-> "web", ports |-> <<80>>]>>},
     endpoints : {<<[namespace |-> "a", name |-> "web",
                     subsets |-> <<<<"10.0.0.1", "10.0.0.9">>>>]>>},
     netpols : FlowNetpolLists]

(***************************************************************************)
(* Listings whose policies name peers                                      *)
(***************************************************************************)
\* A selector of a NetworkPolicyPeer: None, or a V1LabelSelector with its
\* match_labels (None read as no labels).
NoSelector == [given |-> FALSE, match_labels |-> {}]

Selector(match_labels) == [given |-> TRUE, match_labels |-> match_labels]

\* The label every namespace carries for its own name.
NamespaceLabels(ns) == {<<"kubernetes.io/metadata.name", ns>>}

\* Peers: pods of the policy's own namespace, every namespace, one namespace
\* by name.  No peer has an ip_block.
PeerChoices ==
    {[pod_selector |-> Selector({<<"app", "web">>}), namespace_selector |-> NoSelector],
     [pod_selector |-> NoSelector, namespace_selector |-> Selector({})],
     [pod_selector |-> NoSelector, namespace_selector |-> Selector(NamespaceLabels("a"))],
     [pod_selector |-> NoSelector, namespace_selector |-> Selector(NamespaceLabels("a-b"))]}

PeerRuleLists ==
    {<<>>, <<[ports |-> <<>>, from_ |-> <<>>]>>}
    \cup { <<[ports |-> <<>>, from_ |-> <<peer>>]>> : peer \in PeerChoices }
    \cup { <<[ports |-> <<80>>, from_ |-> <<peer>>], [ports |-> <<>>, from_ |-> <<>>]>> :
             peer \in PeerChoices }

PeerNetpolChoices(ns, name) ==
    { [namespace |-> ns, name |-> name, pod_selector |-> {},
       policy_types |-> ty, ingress |-> rules] :
        ty \in {<<"Ingress">>, <<"Egress">>, <<"Ingress", "Egress">>},
        rules \in PeerRuleLists }

PeerNetpolLists ==
    {<<>>}
    \cup { <<np>> : np \in PeerNetpolChoices("a", "np1") }
    \cup { <<np, np2>> : np \in PeerNetpolChoices("a", "np1"),
                         np2 \in PeerNetpolChoices("a-b", "np2") }

\* Pods in no, one or two namespaces.
PeerListings ==
    [failed : {{}},
     nodes : {<<ControlPlaneNode>>},
     pods : {pods \in PodLists :
                \A i \in 1..Len(pods) :
                    pods[i].node_name = "n1" /\ pods[i].pod_ip = None},
     services : {<<>>},
     endpoints : {<<>>},
     netpols : PeerNetpolLists]

(***************************************************************************)
(* topology_analyzer.py: the five fetches                                  *)
(***************************************************************************)
get_nodes(l) == [raised |-> "nodes" \in l.failed, items |-> l.nodes]

get_pods(l) == [raised |-> "pods" \in l.failed, items |-> l.pods]

get_services(l) == [raised |-> "services" \in l.failed, items |-> l.services]

\* A fetch that swallows its failure the way _get_network_policies does.
get_endpointsSwallowing(l) ==
    [raised |-> FALSE,
     items |-> IF "endpoints" \in l.failed THEN <<>> ELSE l.endpoints]

get_endpoints(l) == [raised |-> "endpoints" \in l.failed, items |-> l.endpoints]

\* `except Exception: ... return []`
get_network_policies(l) ==
    [raised |-> FALSE,
     items |-> IF "netpols" \in l.failed THEN <<>> ELSE l.netpols]

(***************************************************************************)
(* topology_analyzer.py: graph assembly                                    *)
(***************************************************************************)
Truthy(x) == x # None /\ x # ""

build_compute_nodes(nodes) ==
    [i \in 1..Len(nodes) |->
        [id |-> "node-" \o nodes[i].name,
         name |-> nodes[i].name,
         role |-> IF nodes[i].control_plane THEN "control-plane" ELSE "worker",
         conditions |-> nodes[i].conditions]]

build_pod_nodes(pods) ==
    [i \in 1..Len(pods) |->
        [id |-> "pod-" \o pods[i].namespace \o "-" \o pods[i].name,
         name |-> pods[i].name,
         namespace |-> pods[i].namespace,
         node_id |-> IF Truthy(pods[i].node_name)
                     THEN "node-" \o pods[i].node_name
                     ELSE "node-unscheduled",
         ip |-> pods[i].pod_ip,
         phase |-> IF Truthy(pods[i].phase) THEN pods[i].phase ELSE "Unknown",
         labels |-> pods[i].labels,
         ports |-> pods[i].ports]]

RECURSIVE Flatten(_)
Flatten(subsets) ==
    IF subsets = <<>> THEN <<>> ELSE Head(subsets) \o Flatten(Tail(subsets))

\* The lookup key without its namespace part.
EndpointKeyByName(namespace, name) == name

\* f"{namespace}/{name}"
EndpointKey(namespace, name) == namespace \o "/" \o name

\* endpoints_map.get(key, []): the dict keeps the last Endpoints object written
\* under a key, and only objects with subsets are written.
EndpointIps(endpoints, key) ==
    LET hits == {i \in 1..Len(endpoints) :
                   /\ endpoints[i].subsets # <<>>
                   /\ EndpointKey(endpoints[i].namespace, endpoints[i].name) = key}
    IN IF hits = {} THEN <<>>
       ELSE Flatten(endpoints[CHOOSE i \in hits : \A j \in hits : j <= i].subsets)

\* pod_by_ip = {pod.ip: pod.id for pod in pods if pod.ip}: the last pod wins.
PodIpKnown(pods, ip) == \E i \in 1..Len(pods) : Truthy(pods[i].ip) /\ pods[i].ip = ip

PodByIp(pods, ip) ==
    LET hits == {i \in 1..Len(pods) : Truthy(pods[i].ip) /\ pods[i].ip = ip}
    IN pods[CHOOSE i \in hits : \A j \in hits : j <= i].id

\* [pod_by_ip[ip] for ip in endpoint_ips if ip in pod_by_ip]
RECURSIVE Resolve(_, _)
Resolve(ips, pods) ==
    IF ips = <<>> THEN <<>>
    ELSE (IF PodIpKnown(pods, Head(ips))
          THEN <<PodByIp(pods, Head(ips))>>
          ELSE <<>>) \o Resolve(Tail(ips), pods)

build_service_nodes(services, endpoints, pods) ==
    [i \in 1..Len(services) |->
        [id |-> "svc-" \o services[i].namespace \o "-" \o services[i].name,
         name |-> services[i].name,
         namespace |-> services[i].namespace,
         ports |-> services[i].ports,
         endpoint_pod_ids |->
             Resolve(EndpointIps(endpoints,
                                 EndpointKey(services[i].namespace, services[i].name)),
                     pods)]]

\* Empty selector matches all; otherwise labels.get(k) == v for every item.
matches_selector(labels, selector) ==
    selector = {} \/ \A kv \in selector : kv \in labels

\* _parse_peer: the dict holds a key for each selector the peer has.
parse_peer(peer) ==
    [keys |-> {k \in {"pod_selector", "namespace_selector"} : peer[k].given},
     pod_selector |-> peer.pod_selector.match_labels,
     namespace_selector |-> peer.namespace_selector.match_labels]

\* src.get(key, {})
dict_get(d, key) == IF key \in d.keys THEN d[key] ELSE {}

build_network_policy_nodes(netpols, pods) ==
    [i \in 1..Len(netpols) |->
        [id |-> "netpol-" \o netpols[i].namespace \o "-" \o netpols[i].name,
         name |-> netpols[i].name,
         namespace |-> netpols[i].namespace,
         pod_selector |-> netpols[i].pod_selector,
         policy_types |-> netpols[i].policy_types,
         ingress_rules |->
             [r \in 1..Len(netpols[i].ingress) |->
                 [ports |-> netpols[i].ingress[r].ports,
                  from_sources |->
                      [k \in 1..Len(netpols[i].ingress[r].from_) |->
                          parse_peer(netpols[i].ingress[r].from_[k])]]],
         affected_pod_ids |->
             LET hit == SelectSeq(pods,
                          LAMBDA pod : /\ pod.namespace = netpols[i].namespace
                                       /\ matches_selector(pod.labels,
                                                           netpols[i].pod_selector))
             IN [k \in 1..Len(hit) |-> hit[k].id]]]

\* [np for np in netpols if pod.id in np.affected_pod_ids]
affecting_policies(pod, netpols) ==
    SelectSeq(netpols, LAMBDA np : pod.id \in Range(np.affected_pod_ids))

check_flow_allowed(pod, port, netpols) ==
    LET affecting == affecting_policies(pod, netpols)
    IN IF affecting = <<>> THEN TRUE
       ELSE \E policy \in Range(affecting) :
              /\ "Ingress" \in Range(policy.policy_types)
              /\ \E rule \in Range(policy.ingress_rules) :
                   rule.ports = <<>> \/ port \in Range(rule.ports)

\* One flow per (service, backing pod id, service port), then one flow with
\* source "*" per declared container port of every pod.
build_communication_flows(pods, services, netpols) ==
    Flatten([s \in 1..Len(services) |->
        Flatten([e \in 1..Len(services[s].endpoint_pod_ids) |->
            [p \in 1..Len(services[s].ports) |->
                [id |-> "flow-" \o services[s].id \o "-"
                          \o services[s].endpoint_pod_ids[e] \o "-"
                          \o ToString(services[s].ports[p]),
                 source_type |-> "service",
                 source_id |-> services[s].id,
                 destination_type |-> "pod",
                 destination_id |-> services[s].endpoint_pod_ids[e],
                 port |-> services[s].ports[p],
                 allowed |-> TRUE,
                 policy_refs |-> <<>>]]])])
    \o
    Flatten([i \in 1..Len(pods) |->
        [p \in 1..Len(pods[i].ports) |->
            [id |-> "flow-potential-" \o pods[i].id \o "-"
                      \o ToString(pods[i].ports[p]),
             source_type |-> "pod",
             source_id |-> "*",
             destination_type |-> "pod",
             destination_id |-> pods[i].id,
             port |-> pods[i].ports[p],
             allowed |-> check_flow_allowed(pods[i], pods[i].ports[p], netpols),
             policy_refs |->
                 LET affecting == affecting_policies(pods[i], netpols)
                 IN [k \in 1..Len(affecting) |-> affecting[k].id]]]])

\* allows = any(rule.from_sources and any(src.get('namespace_selector', {})
\*                                         for src in rule.from_sources) ...)
policy_allows(np) ==
    \E rule \in Range(np.ingress_rules) :
        /\ rule.from_sources # <<>>
        /\ \E src \in Range(rule.from_sources) :
              dict_get(src, "namespace_selector") # {}

\* The entries of the connectivity list; their order is that of iterating
\* a set of namespace names.
calculate_namespace_connectivity(pods, netpols) ==
    LET namespaces == {pods[i].namespace : i \in 1..Len(pods)}
        ingress(dst_ns) ==
            SelectSeq(netpols, LAMBDA np : /\ np.namespace = dst_ns
                                           /\ "Ingress" \in Range(np.policy_types))
        ids(nps) == [k \in 1..Len(nps) |-> nps[k].id]
    IN { [source_namespace |-> src_ns,
          destination_namespace |-> dst_ns,
          allowed |-> SelectSeq(ingress(dst_ns), LAMBDA np : ~policy_allows(np)) = <<>>,
          blocking_policies |->
              ids(SelectSeq(ingress(dst_ns), LAMBDA np : ~policy_allows(np))),
          allowing_policies |->
              ids(SelectSeq(ingress(dst_ns), LAMBDA np : policy_allows(np)))] :
         src_ns \in namespaces, dst_ns \in namespaces }

NoGraph ==
    [compute_nodes |-> <<>>, pods |-> <<>>, services |-> <<>>,
     network_policies |-> <<>>, communication_flows |-> <<>>,
     namespace_connectivity |-> {}]

NoTopo == [status |-> "pending", graph |-> NoGraph]

\* asyncio.gather raises when one of the awaited fetches raised; otherwise the
\* graph is assembled from the five results.
build_topology(l) ==
    IF \/ get_nodes(l).raised \/ get_pods(l).raised \/ get_services(l).raised
       \/ get_endpoints(l).raised \/ get_network_policies(l).raised
    THEN [status |-> "error", graph |-> NoGraph]
    ELSE LET pods == build_pod_nodes(get_pods(l).items)
             services == build_service_nodes(get_services(l).items,
                                             get_endpoints(l).items, pods)
             netpols == build_network_policy_nodes(
                            get_network_policies(l).items, pods)
         IN [status |-> "ok",
             graph |-> [compute_nodes |-> build_compute_nodes(get_nodes(l).items),
                        pods |-> pods,
                        services |-> services,
                        network_policies |-> netpols,
                        communication_flows |->
                            build_communication_flows(pods, services, netpols),
                        namespace_connectivity |->
                            calculate_namespace_connectivity(pods, netpols)]]

BuildTopology ==
    /\ topo.status = "pending"
    /\ topo' = build_topology(listing)
    /\ UNCHANGED <<listing, loopVars, histVars, diagVars, ctxVars, appVars>>

(***************************************************************************)
(* models/diagnostic_result.py                                             *)
(***************************************************************************)
MaxChecks == 4      \* add_check calls on one report

\* DiagnosticStatus, less UNKNOWN, which no check is built with.
CheckStatuses == {"pass", "warning", "fail", "error"}

\* A pydantic constructor raises ValidationError when a field without a
\* default is absent from its keyword arguments; a keyword that names no
\* field is ignored.
RemediationActionRequired == {"type", "description"}

DiagnosticReportRequired == {"cluster_name", "platform"}

ValidationError(required, kwargs) == ~(required \subseteq kwargs)

\* DiagnosticCheck(name=, category=, status=, severity=, message=, ...): the
\* runner's `remediation=` names no field, so remediation_actions keeps its
\* default.
DiagnosticCheck(name, status, severity, message) ==
    [name |-> name, status |-> status, severity |-> severity,
     message |-> message, remediation_actions |-> <<>>]

\* DiagnosticReport(cluster_name=..., platform=...)
FreshReport ==
    [checks |-> <<>>,
     summary |-> [total |-> 0, passed |-> 0, warnings |-> 0, failed |-> 0,
                  errors |-> 0],
     overall_health |-> "unknown"]

add_check(r, check) ==
    [checks |-> Append(r.checks, check),
     summary |->
         [total |-> r.summary.total + 1,
          passed |-> r.summary.passed + (IF check.status = "pass" THEN 1 ELSE 0),
          warnings |-> r.summary.warnings
                         + (IF check.status = "warning" THEN 1 ELSE 0),
          failed |-> r.summary.failed + (IF check.status = "fail" THEN 1 ELSE 0),
          errors |-> r.summary.errors + (IF check.status = "error" THEN 1 ELSE 0)],
     overall_health |->
         IF r.overall_health = "unknown" THEN check.status
         ELSE IF check.status \in {"fail", "error"} THEN "fail"
         ELSE IF check.status = "warning" /\ r.overall_health = "pass"
              THEN "warning"
         ELSE r.overall_health]

AddCheck ==
    /\ Len(report.checks) < MaxChecks
    /\ \E st \in CheckStatuses :
         report' = add_check(report, DiagnosticCheck("check", st, "info", "message"))
    /\ UNCHANGED <<loopVars, histVars, topoVars, diag, ctxVars, appVars>>

(***************************************************************************)
(* diagnostics/runner.py: what a check method ends with                    *)
(***************************************************************************)
NoCheck == DiagnosticCheck(None, None, None, None)

Returned(check) == [raised |-> FALSE, check |-> check, error |-> None]

Raised(error) == [raised |-> TRUE, check |-> NoCheck, error |-> error]

\* DiagnosticCheck(..., remediation=RemediationAction(**kwargs)): the
\* argument is evaluated first.
CheckWithRemediation(name, status, severity, message, kwargs) ==
    IF ValidationError(RemediationActionRequired, kwargs)
    THEN Raised("ValidationError for RemediationAction")
    ELSE Returned(DiagnosticCheck(name, status, severity, message))

(***************************************************************************)
(* diagnostics/runner.py: the answers of the Kubernetes API during a run   *)
(***************************************************************************)
required_agents ==
    {"clusterconnect-agent", "config-agent", "controller-manager",
     "extension-manager", "metrics-agent", "resource-sync-agent"}

\* list_namespaced_pod(namespace="azure-arc"), as answered to both Arc checks
\* of one run: each pod by the agent its name contains, and its phase.
ArcListings ==
    {[raised |-> TRUE, items |-> {}],
     [raised |-> FALSE, items |-> {}],
     [raised |-> FALSE,
      items |-> {[agent |-> a, phase |-> "Running"] : a \in required_agents}],
     [raised |-> FALSE,
      items |-> {[agent |-> a,
                  phase |-> IF a = "clusterconnect-agent" THEN "Pending"
                            ELSE "Running"] : a \in required_agents}]}

\* list_namespaced_service(namespace="kube-system"): the service names.
DnsListings ==
    {[raised |-> TRUE, items |-> {}],
     [raised |-> FALSE, items |-> {"metrics-server"}],
     [raised |-> FALSE, items |-> {"metrics-server", "kube-dns"}]}

\* "dns" in svc.metadata.name.lower()
ContainsDns(name) == name \in {"kube-dns", "coredns"}

ApiOutcomes ==
    [version : {"ok", "raise"},
     arc : ArcListings,
     dns : DnsListings]

(***************************************************************************)
(* diagnostics/runner.py: the eleven checks                                *)
(***************************************************************************)
check_control_plane_health(topology) ==
    LET control_plane_nodes ==
            SelectSeq(topology.compute_nodes, LAMBDA n : n.role = "control-plane")
        unhealthy ==
            SelectSeq(control_plane_nodes,
                      LAMBDA n : \E c \in Range(n.conditions) :
                                   c.type = "Ready" /\ c.status # "True")
        attempt ==
            IF control_plane_nodes = <<>>
            THEN CheckWithRemediation("control_plane_health", "fail", "critical",
                                      "No control plane nodes found",
                                      {"description", "kubectl_commands"})
            ELSE IF unhealthy # <<>>
            THEN CheckWithRemediation("control_plane_health", "fail", "critical",
                                      "Control plane nodes not ready: "
                                          \o unhealthy[1].name,
                                      {"description", "kubectl_commands"})
            ELSE Returned(DiagnosticCheck("control_plane_health", "pass", "info",
                                          "All control plane node(s) healthy"))
    IN IF attempt.raised
       THEN Returned(DiagnosticCheck("control_plane_health", "error", "high",
                                     "Check failed: " \o attempt.error))
       ELSE attempt

\* The RemediationAction is built inside the except clause.
check_api_server_connectivity(api) ==
    IF api.version = "ok"
    THEN Returned(DiagnosticCheck("api_server_connectivity", "pass", "info",
                                  "API server reachable"))
    ELSE CheckWithRemediation("api_server_connectivity", "fail", "critical",
                              "Cannot reach API server: ApiException",
                              {"description", "kubectl_commands"})

check_arc_agents_running(api) ==
    LET running_agents ==
            {pod.agent : pod \in {q \in api.arc.items : q.phase = "Running"}}
        missing_agents == required_agents \ running_agents
        attempt ==
            IF api.arc.raised THEN Raised("ApiException")
            ELSE IF missing_agents # {}
            THEN CheckWithRemediation("arc_agents_running", "fail", "high",
                                      "Missing Arc agents",
                                      {"description", "kubectl_commands",
                                       "az_commands"})
            ELSE Returned(DiagnosticCheck("arc_agents_running", "pass", "info",
                                          "All 6 Arc agents running"))
    IN IF attempt.raised
       THEN Returned(DiagnosticCheck("arc_agents_running", "warning", "low",
                                     "Arc agents check skipped: " \o attempt.error))
       ELSE attempt

check_arc_connectivity(api) ==
    LET connect_agent_pods ==
            {pod \in api.arc.items : pod.agent = "clusterconnect-agent"}
    IN IF api.arc.raised
       THEN Returned(DiagnosticCheck("arc_connectivity", "warning", "low",
                                     "Arc connectivity check skipped: ApiException"))
       ELSE IF connect_agent_pods = {}
       THEN Returned(DiagnosticCheck("arc_connectivity", "warning", "medium",
                         "No clusterconnect-agent found to verify connectivity"))
       ELSE Returned(DiagnosticCheck("arc_connectivity", "pass", "info",
                                     "Arc connectivity operational"))

check_dns_resolution(api) ==
    LET dns_services == {name \in api.dns.items : ContainsDns(name)}
        attempt ==
            IF api.dns.raised THEN Raised("ApiException")
            ELSE IF dns_services = {}
            THEN CheckWithRemediation("dns_resolution", "fail", "high",
                                      "No DNS service found in kube-system",
                                      {"description", "kubectl_commands"})
            ELSE Returned(DiagnosticCheck("dns_resolution", "pass", "info",
                                          "DNS service available"))
    IN IF attempt.raised
       THEN Returned(DiagnosticCheck("dns_resolution", "error", "medium",
                                     "DNS check failed: " \o attempt.error))
       ELSE attempt

check_network_policies(topology) ==
    LET permissive_policies ==
            SelectSeq(topology.network_policies,
                      LAMBDA np : /\ np.ingress_rules = <<>>
                                  /\ "Ingress" \in Range(np.policy_types))
    IN IF topology.network_policies = <<>>
       THEN Returned(DiagnosticCheck("network_policies", "warning", "low",
                         "No NetworkPolicies defined - all traffic allowed by default"))
       ELSE IF permissive_policies # <<>>
       THEN Returned(DiagnosticCheck("network_policies", "warning", "medium",
                         "Overly permissive policies: " \o permissive_policies[1].name))
       ELSE Returned(DiagnosticCheck("network_policies", "pass", "info",
                         ToString(Len(topology.network_policies))
                             \o " NetworkPolicies configured"))

check_service_endpoints(topology) ==
    LET services_without_endpoints ==
            SelectSeq(topology.services, LAMBDA svc : svc.endpoint_pod_ids = <<>>)
    IN IF services_without_endpoints # <<>>
       THEN CheckWithRemediation("service_endpoints", "warning", "medium",
                ToString(Len(services_without_endpoints))
                    \o " services have no endpoints",
                {"description", "kubectl_commands"})
       ELSE Returned(DiagnosticCheck("service_endpoints", "pass", "info",
                "All " \o ToString(Len(topology.services))
                    \o " services have endpoints"))

check_node_conditions(topology) ==
    LET problem_nodes ==
            SelectSeq(topology.compute_nodes,
                      LAMBDA n : \E c \in Range(n.conditions) :
                                   /\ c.type \in {"MemoryPressure", "DiskPressure",
                                                  "PIDPressure"}
                                   /\ c.status = "True")
    IN IF problem_nodes # <<>>
       THEN CheckWithRemediation("node_conditions", "fail", "high",
                                 "node(s) have pressure conditions",
                                 {"description", "kubectl_commands"})
       ELSE Returned(DiagnosticCheck("node_conditions", "pass", "info",
                                     "All nodes have healthy conditions"))

check_node_resources(topology) ==
    Returned(DiagnosticCheck("node_resources", "pass", "info",
                 "Monitoring " \o ToString(Len(topology.compute_nodes))
                     \o " node(s) for resource availability"))

check_pod_health(topology) ==
    LET unhealthy_pods ==
            SelectSeq(topology.pods,
                      LAMBDA pod : pod.phase \notin {"Running", "Succeeded"})
    IN IF unhealthy_pods # <<>>
       THEN CheckWithRemediation("pod_health", "fail", "medium",
                ToString(Len(unhealthy_pods)) \o " pods not healthy",
                {"description", "kubectl_commands"})
       ELSE Returned(DiagnosticCheck("pod_health", "pass", "info",
                "All " \o ToString(Len(topology.pods)) \o " pods healthy"))

check_restart_loops(topology) ==
    Returned(DiagnosticCheck("restart_loops", "pass", "info",
                             "No restart loops detected"))

(***************************************************************************)
(* diagnostics/runner.py: run_all_checks                                   *)
(***************************************************************************)
NoReport ==
    [checks |-> <<>>,
     summary |-> [pass |-> 0, warn |-> 0, fail |-> 0, error |-> 0],
     overall_health |-> None]

NoRun == [called |-> FALSE, returned |-> FALSE, error |-> None,
          checks |-> <<>>, report |-> NoReport]

CountStatus(checks, status) ==
    Cardinality({i \in 1..Len(checks) : checks[i].status = status})

\* The checks are awaited in order and the first exception leaves the method;
\* `checks` is the local list at that point.
run_all_checks(topology, api) ==
    LET outcomes ==
            <<check_control_plane_health(topology),
              check_api_server_connectivity(api),
              check_arc_agents_running(api),
              check_arc_connectivity(api),
              check_dns_resolution(api),
              check_network_policies(topology),
              check_service_endpoints(topology),
              check_node_conditions(topology),
              check_node_resources(topology),
              check_pod_health(topology),
              check_restart_loops(topology)>>
        raising == {i \in 1..Len(outcomes) : outcomes[i].raised}
        first == CHOOSE i \in raising : \A j \in raising : i <= j
        checks == [i \in 1..Len(outcomes) |-> outcomes[i].check]
        summary == [pass |-> CountStatus(checks, "pass"),
                    warn |-> CountStatus(checks, "warning"),
                    fail |-> CountStatus(checks, "fail"),
                    error |-> CountStatus(checks, "error")]
        overall_health ==
            IF summary.fail > 0 \/ summary.error > 0 THEN "fail"
            ELSE IF summary.warn > 0 THEN "warning"
            ELSE "pass"
    IN IF raising # {}
       THEN [called |-> TRUE, returned |-> FALSE, error |-> outcomes[first].error,
             checks |-> SubSeq(checks, 1, first - 1), report |-> NoReport]
       ELSE IF ValidationError(DiagnosticReportRequired,
                               {"timestamp", "cluster_name", "checks", "summary",
                                "overall_health"})
       THEN [called |-> TRUE, returned |-> FALSE,
             error |-> "ValidationError for DiagnosticReport",
             checks |-> checks, report |-> NoReport]
       ELSE [called |-> TRUE, returned |-> TRUE, error |-> None,
             checks |-> checks,
             report |-> [checks |-> checks, summary |-> summary,
                         overall_health |-> overall_health]]

NoDiag == [prev |-> NoRun, last |-> NoRun]

DiagIdle == diag = NoDiag /\ report = FreshReport

\* One call of run_all_checks on the built graph; the cluster answers each
\* call anew.
RunAllChecks ==
    /\ topo.status = "ok"
    /\ \E api \in ApiOutcomes :
         diag' = [prev |-> diag.last, last |-> run_all_checks(topo.graph, api)]
    /\ UNCHANGED <<loopVars, histVars, topoVars, report, ctxVars, appVars>>

(***************************************************************************)
(* Listings for the diagnostic checks                                      *)
(***************************************************************************)
NotReadyControlPlaneNode ==
    [name |-> "n1", control_plane |-> TRUE,
     conditions |-> <<[type |-> "Ready", status |-> "False"]>>]

PressuredWorkerNode ==
    [name |-> "n2", control_plane |-> FALSE,
     conditions |-> <<[type |-> "MemoryPressure", status |-> "True"],
                      [type |-> "Ready", status |-> "True"]>>]

DiagListings ==
    [failed : {{}},
     nodes : {<<>>, <<ControlPlaneNode>>, <<NotReadyControlPlaneNode>>,
              <<ControlPlaneNode, PressuredWorkerNode>>},
     pods : {<<>>}
            \cup { <<pod>> : pod \in {q \in PodChoices(1) :
                                        /\ q.node_name = "n1"
                                        /\ q.pod_ip \in {None, "10.0.0.1"}} },
     services : {<<>>, <<[namespace |-> "a", name |-> "web", ports |-> <<80>>]>>},
     endpoints : {<<>>,
                  <<[namespace |-> "a", name |-> "web",
                     subsets |-> <<<<"10.0.0.1", "10.0.0.9">>>>]>>},
     netpols : NetpolLists
               \cup {<<[namespace |-> "a", name |-> "allow-web", pod_selector |-> {},
                        policy_types |-> <<"Ingress">>,
                        ingress |-> <<[ports |-> <<80>>, from_ |-> <<>>]>>]>>}]

(***************************************************************************)
(* services/context.py: ContextBuffer                                      *)
(***************************************************************************)
MaxSnapshots == 2   \* largest max_snapshots a buffer is constructed with
MaxTime == 2        \* hours the clock advances
MaxAdds == 3        \* add() calls on one buffer
MaxStarts == 1      \* SpecLife: effective start() calls served before the shutdown

\* Defaults of ContextBuffer.__init__.
DefaultRetentionHours == 24
DefaultMaxSnapshots == 1000

RetentionChoices == {0, 1}

\* get_recent's `hours`: None (not given) or a number of hours.
HoursChoices ==
    {[given |-> FALSE, value |-> 0]}
    \cup {[given |-> TRUE, value |-> h] : h \in 0..MaxTime}

ContextBuffer(retention_hours, max_snapshots) ==
    [retention_hours |-> retention_hours,
     max_snapshots |-> max_snapshots,
     snapshots |-> <<>>]

\* A deque without maxlen.
deque_appendUnbounded(q, x, maxlen) == Append(q, x)

\* deque(maxlen=...).append: a full deque discards its leftmost item.
deque_append(q, x, maxlen) ==
    IF maxlen = 0 THEN q
    ELSE IF Len(q) = maxlen THEN Append(Tail(q), x)
    ELSE Append(q, x)

\* An `if` in place of the `while`.
prune_old_dataOnce(snapshots, cutoff) ==
    IF snapshots # <<>> /\ Head(snapshots).timestamp < cutoff
    THEN Tail(snapshots)
    ELSE snapshots

\* while self._snapshots and self._snapshots[0].timestamp < cutoff: popleft()
RECURSIVE prune_old_data(_, _)
prune_old_data(snapshots, cutoff) ==
    IF snapshots # <<>> /\ Head(snapshots).timestamp < cutoff
    THEN prune_old_data(Tail(snapshots), cutoff)
    ELSE snapshots

add(buf, status, utcnow) ==
    [buf EXCEPT !.snapshots =
        deque_append(prune_old_data(buf.snapshots, utcnow - buf.retention_hours),
                     status, buf.max_snapshots)]

\* hours = hours or self.retention_hours
get_recent(buf, hours, utcnow) ==
    LET h == IF hours.given /\ hours.value # 0 THEN hours.value
             ELSE buf.retention_hours
        cutoff == utcnow - h
    IN SelectSeq(buf.snapshots, LAMBDA s : s.timestamp >= cutoff)

clear(buf) == [buf EXCEPT !.snapshots = <<>>]

NoRecent == [valid |-> FALSE, hours |-> [given |-> FALSE, value |-> 0],
             result |-> <<>>]

CtxIdle ==
    /\ buffer = ContextBuffer(DefaultRetentionHours, DefaultMaxSnapshots)
    /\ now = 0
    /\ added = 0
    /\ recent = NoRecent

\* add(status): the snapshot was taken at or before the call.
Add ==
    /\ added < MaxAdds
    /\ \E ts \in 0..now :
         buffer' = add(buffer, [id |-> added + 1, timestamp |-> ts], now)
    /\ added' = added + 1
    /\ recent' = NoRecent
    /\ UNCHANGED <<now, loopVars, histVars, topoVars, diagVars, appVars>>

GetRecent ==
    /\ \E hours \in HoursChoices :
         recent' = [valid |-> TRUE, hours |-> hours,
                    result |-> get_recent(buffer, hours, now)]
    /\ UNCHANGED <<buffer, now, added, loopVars, histVars, topoVars, diagVars, appVars>>

Clear ==
    /\ buffer' = clear(buffer)
    /\ recent' = NoRecent
    /\ UNCHANGED <<now, added, loopVars, histVars, topoVars, diagVars, appVars>>

\* The wall clock read by datetime.now(timezone.utc) moves on.
Advance ==
    /\ now < MaxTime
    /\ now' = now + 1
    /\ recent' = NoRecent
    /\ UNCHANGED <<buffer, added, loopVars, histVars, topoVars, diagVars, appVars>>

(***************************************************************************)
(* services/context.py: get_events_by_type over snapshots with events      *)
(***************************************************************************)
\* (namespace, name, type) of the Event objects the cluster holds; two of
\* them have the same name in different namespaces.
EventObjects ==
    <<[namespace |-> "a", name |-> "e1", type |-> "Warning"],
      [namespace |-> "b", name |-> "e1", type |-> "Warning"],
      [namespace |-> "a", name |-> "e2", type |-> "Normal"]>>

EventTypes == {"Warning", "Normal"}

Event(o, ts) ==
    [timestamp |-> ts, namespace |-> o.namespace, name |-> o.name, type |-> o.type]

\* sorted(events, key=timestamp, reverse=True): a stable sort, events of
\* equal timestamp keep their order.
RECURSIVE sorted_by_timestamp_desc(_)
sorted_by_timestamp_desc(events) ==
    IF events = <<>> THEN <<>>
    ELSE LET rest == sorted_by_timestamp_desc(Tail(events))
             e == Head(events)
         IN SelectSeq(rest, LAMBDA x : x.timestamp > e.timestamp)
            \o <<e>>
            \o SelectSeq(rest, LAMBDA x : x.timestamp <= e.timestamp)

\* What get_cluster_status keeps of an event listing at time `utcnow`:
\* up to two of the Event objects, each with its last_timestamp, those of
\* the last hour only, sorted by timestamp descending.
EventListings(utcnow) ==
    LET Stamps == {ts \in 0..utcnow : utcnow - ts <= 1}
    IN UNION {{sorted_by_timestamp_desc(
                  Flatten([i \in 1..Len(EventObjects) |->
                              IF i \in listed
                              THEN <<Event(EventObjects[i], f[i])>>
                              ELSE <<>>]))
               : f \in [listed -> Stamps]}
              : listed \in {l \in SUBSET (1..Len(EventObjects)) : Cardinality(l) <= 2}}

RECURSIVE dedup_by_name(_, _)
dedup_by_name(events, seen) ==
    IF events = <<>> THEN <<>>
    ELSE IF Head(events).name \in seen THEN dedup_by_name(Tail(events), seen)
    ELSE <<Head(events)>> \o dedup_by_name(Tail(events), seen \cup {Head(events).name})

get_events_by_type(buf, event_type, hours, utcnow) ==
    LET recent_snapshots == get_recent(buf, hours, utcnow)
        events == Flatten([i \in 1..Len(recent_snapshots) |->
                      SelectSeq(recent_snapshots[i].events,
                                LAMBDA e : e.type = event_type)])
    IN dedup_by_name(sorted_by_timestamp_desc(events), {})

\* add(status) with a status that get_cluster_status has just built.
AddStatus ==
    /\ added < MaxSnapshots
    /\ \E events \in EventListings(now) :
         buffer' = add(buffer, [id |-> added + 1, timestamp |-> now,
                                events |-> events], now)
    /\ added' = added + 1
    /\ recent' = NoRecent
    /\ UNCHANGED <<now, loopVars, histVars, topoVars, diagVars, appVars>>

GetEventsByType ==
    /\ \E event_type \in EventTypes, hours \in HoursChoices :
         recent' = [valid |-> TRUE, hours |-> hours, event_type |-> event_type,
                    result |-> get_events_by_type(buffer, event_type, hours, now)]
    /\ UNCHANGED <<buffer, now, added, loopVars, histVars, topoVars, diagVars, appVars>>

(***************************************************************************)
(* The callers of KubernetesClient.get_cluster_status: the cluster_watcher *)
(* task and the handler of GET /api/cluster/status.                        *)
(***************************************************************************)
Pollers == {"watcher", "request"}

\* Where a caller is: the watcher task not yet run, a caller between
\* calls, at one of the two awaits of get_cluster_status, the watcher in
\* sleep(30) or sleep(5), the watcher's coroutine ended.
PollPc == {"created", "idle", "pods", "events", "sleep", "retry", "done"}

AppIdle ==
    /\ poll = [p \in Pollers |-> IF p = "watcher" THEN "created" ELSE "idle"]
    /\ life = [pc |-> "serving", connected |-> TRUE, watcher_cancel |-> FALSE]

\* The watcher's task was cancelled and the CancelledError is not yet raised in it.
CancelPending(p) == p = "watcher" /\ life.watcher_cancel

\* An exception leaves get_cluster_status: the watcher logs it and
\* sleeps 5 seconds, the route answers HTTP 500.
Raise(p) == IF p = "watcher" THEN "retry" ELSE "idle"

\* The call returned a status: the watcher sleeps 30 seconds, the route answers.
Returned_status(p) == IF p = "watcher" THEN "sleep" ELSE "idle"

\* ClusterStatus(timestamp=datetime.now(timezone.utc), ...), built after
\* the last await of get_cluster_status.
ClusterStatus(p, utcnow) == [id |-> added + 1, timestamp |-> utcnow, by |-> p]

\* A caller enters get_cluster_status: it raises when the client is not
\* connected, else it awaits the pod listing.
CallGetClusterStatus(p) ==
    /\ life.pc = "serving" \/ p = "watcher"
    /\ ~CancelPending(p)
    /\ poll[p] \in (IF p = "watcher" THEN {"created", "sleep", "retry"} ELSE {"idle"})
    /\ poll' = [poll EXCEPT ![p] = IF life.connected THEN "pods" ELSE Raise(p)]
    /\ recent' = NoRecent
    /\ UNCHANGED <<buffer, now, added, life, loopVars, histVars, topoVars, diagVars>>

\* The pod listing returns or raises ApiException.
PodsReturn(p) ==
    /\ poll[p] = "pods"
    /\ ~CancelPending(p)
    /\ \E ok \in BOOLEAN :
         poll' = [poll EXCEPT ![p] = IF ok THEN "events" ELSE Raise(p)]
    /\ recent' = NoRecent
    /\ UNCHANGED <<buffer, now, added, life, loopVars, histVars, topoVars, diagVars>>

\* The snapshot stamped with a clock value read before the last await.
StatusReturnStampedEarly(p) ==
    /\ poll[p] = "events"
    /\ ~CancelPending(p)
    /\ added < MaxAdds
    /\ \E ok \in BOOLEAN :
         IF ok
         THEN /\ \E ts \in 0..now : buffer' = add(buffer, ClusterStatus(p, ts), now)
              /\ added' = added + 1
              /\ poll' = [poll EXCEPT ![p] = Returned_status(p)]
         ELSE /\ poll' = [poll EXCEPT ![p] = Raise(p)]
              /\ UNCHANGED <<buffer, added>>
    /\ recent' = NoRecent
    /\ UNCHANGED <<now, life, loopVars, histVars, topoVars, diagVars>>

\* The event listing returns: the status is stamped and returned, and the
\* caller adds it to the buffer, all without a suspension; or the listing
\* raises ApiException.
StatusReturn(p) ==
    /\ poll[p] = "events"
    /\ ~CancelPending(p)
    /\ added < MaxAdds
    /\ \E ok \in BOOLEAN :
         IF ok
         THEN /\ buffer' = add(buffer, ClusterStatus(p, now), now)
              /\ added' = added + 1
              /\ poll' = [poll EXCEPT ![p] = Returned_status(p)]
         ELSE /\ poll' = [poll EXCEPT ![p] = Raise(p)]
              /\ UNCHANGED <<buffer, added>>
    /\ recent' = NoRecent
    /\ UNCHANGED <<now, life, loopVars, histVars, topoVars, diagVars>>

(***************************************************************************)
(* lifespan: the shutdown after `yield` (backend/src/main.py)              *)
(*                                                                         *)
(* The server runs the shutdown after it stopped accepting requests and    *)
(* the requests in flight were answered, so no stop() of a route is        *)
(* awaiting a task when the shutdown begins and no route runs after it.    *)
(***************************************************************************)
Serving == life.pc = "serving"

\* `watcher_task.cancel()` followed by `await watcher_task`.
cancel_watcher ==
    [life EXCEPT !.pc = "await_watcher", !.watcher_cancel = poll["watcher"] # "done"]

\* `await reasoning_loop.stop()`: stop() suspends at `await self._task` when
\* the loop was running; else it returns at once and the lifespan goes on to
\* cancel the watcher and to await it.
ShutdownStopLoop ==
    /\ Serving
    /\ stopWaiting = {}
    /\ poll["request"] = "idle"
    /\ stop
    /\ life' = IF running /\ task # 0
               THEN [life EXCEPT !.pc = "await_loop"]
               ELSE cancel_watcher

\* The loop's task ended: stop() returns to the lifespan, which cancels the
\* watcher and awaits it.
ShutdownLoopStopped(t) ==
    /\ life.pc = "await_loop"
    /\ stop_return(t)
    /\ life' = cancel_watcher

\* CancelledError raised in cluster_watcher at the await it is suspended
\* at: the inner handler re-raises it, the outer one swallows it and the
\* coroutine ends; a watcher that never ran is cancelled without running.
WatcherCancelled ==
    /\ CancelPending("watcher")
    /\ poll["watcher"] # "done"
    /\ poll' = [poll EXCEPT !["watcher"] = "done"]
    /\ life' = [life EXCEPT !.watcher_cancel = FALSE]
    /\ recent' = NoRecent
    /\ UNCHANGED <<buffer, now, added, loopVars, histVars, topoVars, diagVars>>

\* The shutdown going on to the disconnect without `await watcher_task`.
ShutdownDisconnectNotAwaiting ==
    /\ life.pc = "await_watcher"
    /\ life' = [life EXCEPT !.pc = "done", !.connected = FALSE]
    /\ buffer' = clear(buffer)
    /\ recent' = NoRecent
    /\ UNCHANGED <<now, added, poll, loopVars, histVars, topoVars, diagVars>>

\* `await watcher_task` ends, then `await k8s_client.disconnect()` and
\* `context_buffer.clear()`: disconnect() holds no suspension point.
ShutdownDisconnect ==
    /\ life.pc = "await_watcher"
    /\ poll["watcher"] = "done"
    /\ life' = [life EXCEPT !.pc = "done", !.connected = FALSE]
    /\ buffer' = clear(buffer)
    /\ recent' = NoRecent
    /\ UNCHANGED <<now, added, poll, loopVars, histVars, topoVars, diagVars>>

(***************************************************************************)
(* Specifications                                                          *)
(***************************************************************************)
Init == LoopInit /\ durations = {0} /\ listing = EmptyListing /\ topo = NoTopo /\ DiagIdle /\ CtxIdle /\ AppIdle

Next ==
    \/ Start
    \/ Stop
    \/ \E t \in Tasks : StopReturn(t)
    \/ \E t \in Tasks : Cancelled(t)
    \/ \E t \in Tasks : LoopIterate(t)
    \/ \E t \in Tasks : ObserveReturn(t)
    \/ \E t \in Tasks : ReasonReturn(t)

Spec == Init /\ [][Next]_vars

\* The loop together with the HTTP clients of its result queries.
NextApi ==
    \/ Next
    \/ Query

SpecApi == Init /\ [][NextApi]_vars

InitTopo == LoopInit /\ durations = {0} /\ listing \in Listings /\ topo = NoTopo /\ DiagIdle /\ CtxIdle /\ AppIdle

NextTopo == BuildTopology

SpecTopo == InitTopo /\ [][NextTopo]_vars

\* build_topology over listings whose pods declare ports and labels and
\* whose policies carry selectors and ingress rules.
InitFlow == LoopInit /\ durations = {0} /\ listing \in FlowListings /\ topo = NoTopo /\ DiagIdle /\ CtxIdle /\ AppIdle

NextFlow == BuildTopology

SpecFlow == InitFlow /\ [][NextFlow]_vars

\* DiagnosticRunner.run_all_checks called on graphs that build_topology built.
InitDiag == LoopInit /\ durations = {0} /\ listing \in DiagListings /\ topo = NoTopo /\ DiagIdle /\ CtxIdle /\ AppIdle

NextDiag ==
    \/ BuildTopology
    \/ RunAllChecks

SpecDiag == InitDiag /\ [][NextDiag]_vars

\* DiagnosticReport.add_check called on a fresh report.
NextReport == AddCheck

SpecReport == Init /\ [][NextReport]_vars

\* A ContextBuffer with its writer, its readers and the passing of time.
InitCtx ==
    /\ LoopInit /\ durations = {0} /\ listing = EmptyListing /\ topo = NoTopo /\ DiagIdle /\ AppIdle
    /\ buffer \in {ContextBuffer(r, m) : r \in RetentionChoices, m \in 1..MaxSnapshots}
    /\ now = 0
    /\ added = 0
    /\ recent = NoRecent

NextCtx ==
    \/ Add
    \/ GetRecent
    \/ Clear
    \/ Advance

SpecCtx == InitCtx /\ [][NextCtx]_vars

\* The watcher and the status route polling the cluster while the clock runs.
InitWatch ==
    /\ LoopInit /\ durations = {0} /\ listing = EmptyListing /\ topo = NoTopo /\ DiagIdle /\ AppIdle
    /\ \E r \in RetentionChoices : buffer = ContextBuffer(r, DefaultMaxSnapshots)
    /\ now = 0
    /\ added = 0
    /\ recent = NoRecent

NextWatch ==
    \/ \E p \in Pollers : CallGetClusterStatus(p)
    \/ \E p \in Pollers : PodsReturn(p)
    \/ \E p \in Pollers : StatusReturn(p)
    \/ Advance

SpecWatch == InitWatch /\ [][NextWatch]_vars

\* A ContextBuffer filled with snapshots that carry events, and its
\* get_events_by_type readers.
NextEvents ==
    \/ AddStatus
    \/ GetEventsByType
    \/ Advance

InitEvents ==
    /\ LoopInit /\ durations = {0} /\ listing = EmptyListing /\ topo = NoTopo /\ DiagIdle /\ AppIdle
    /\ buffer = ContextBuffer(1, DefaultMaxSnapshots)
    /\ now = 0
    /\ added = 0
    /\ recent = NoRecent

SpecEvents == InitEvents /\ [][NextEvents]_vars

\* The loop on a cluster whose answers make a cycle take any of Durations.
InitTick ==
    /\ LoopInit /\ durations = Durations
    /\ listing = EmptyListing /\ topo = NoTopo /\ DiagIdle /\ CtxIdle /\ AppIdle

SpecTick == InitTick /\ [][Next]_vars

\* SpecTick with the event loop's scheduling: a task that is ready, or whose
\* sleep has run out, is resumed, and a cancelled task gets its CancelledError.
FairTick ==
    \A t \in Tasks : WF_vars(LoopIterate(t)) /\ WF_vars(Cancelled(t))

SpecTickFair == InitTick /\ [][Next]_vars /\ FairTick

\* build_topology over listings whose policies name peers.
InitPeer ==
    /\ LoopInit /\ durations = {0}
    /\ listing \in PeerListings /\ topo = NoTopo /\ DiagIdle /\ CtxIdle /\ AppIdle

NextPeer == BuildTopology

SpecPeer == InitPeer /\ [][NextPeer]_vars

\* The application from startup to the end of its shutdown: the loop with
\* the routes that start and stop it, the watcher, and the lifespan.
InitLife ==
    /\ LoopInit /\ durations = {0} /\ listing = EmptyListing /\ topo = NoTopo /\ DiagIdle /\ AppIdle
    /\ buffer = ContextBuffer(DefaultRetentionHours, DefaultMaxSnapshots)
    /\ now = 0
    /\ added = 0
    /\ recent = NoRecent

NextLife ==
    \/ Serving /\ (running \/ NumTasks < MaxStarts) /\ Start
    \/ Serving /\ Stop
    \/ \E t \in Tasks : Serving /\ StopReturn(t)
    \/ \E t \in Tasks : Cancelled(t)
    \/ \E t \in Tasks : LoopIterate(t)
    \/ \E t \in Tasks : ObserveReturn(t)
    \/ \E t \in Tasks : ReasonReturn(t)
    \/ CallGetClusterStatus("watcher")
    \/ PodsReturn("watcher")
    \/ StatusReturn("watcher")
    \/ ShutdownStopLoop
    \/ \E t \in Tasks : ShutdownLoopStopped(t)
    \/ WatcherCancelled
    \/ ShutdownDisconnect

SpecLife == InitLife /\ [][NextLife]_vars

(***************************************************************************)
(* Reasoning loop: lifecycle                                               *)
(***************************************************************************)
RetainedResults == <<phase, last_observation, last_reasoning, last_action_plan>>

\* C1: once a stop() call has returned, and as long as no start() has been
\* called since that stop() began, the phase and the retained observation,
\* reasoning and action plan reported by get_status() never change again.
StopFreezesStatus == [][stopped => UNCHANGED RetainedResults]_vars

\* stop() has returned after cancelling a tick that was awaiting build_topology
\* or run_all_checks.
StopFreezesStatusWitness ==
    /\ stopped
    /\ task # 0
    /\ task \in finished
    /\ pc[task] \in {"observe", "reason"}

\* C2: at any time at most one loop task is alive and at most one tick is
\* executing, whatever the interleaving of start() and stop().
SingleTaskSingleTick ==
    /\ Cardinality({t \in Tasks : Alive(t)}) <= 1
    /\ Cardinality({t \in Tasks : InTick(t)}) <= 1

\* C3: a start() that finds the loop running and a stop() that finds it not
\* running change nothing of the loop: no task is created, and running, phase
\* and the retained results stay as they were.
RedundantCallsChangeNothing ==
    [][((lastOp' = "start" /\ running) \/ (lastOp' = "stop" /\ ~running))
         => UNCHANGED loopVars]_vars

\* start() was called while a tick of the running loop was awaiting
\* build_topology.
RedundantCallsWitness ==
    /\ lastOp = "start"
    /\ wasRunning
    /\ task # 0
    /\ InTick(task)

\* C4: whenever no tick is in progress the phase is idle.
IdleBetweenTicks == (\A t \in Tasks : ~InTick(t)) => phase = "idle"

(***************************************************************************)
(* Reasoning loop: retained results                                        *)
(***************************************************************************)
\* C5: an ActionPlan is retained only while the retained Reasoning's report is
\* not pass; a tick that ends with a pass report leaves no plan retained, and
\* a tick that ends with another report retains the plan it produced.
PlanOnlyWhenUnhealthy ==
    /\ last_action_plan # 0 => last_reasoning.health \in {"warn", "fail"}
    /\ [][/\ last_action_plan' # 0 => last_reasoning'.health \in {"warn", "fail"}
          /\ \A t \in Tasks :
               (pc[t] = "reason" /\ pc'[t] = "sleep")
                 => /\ last_reasoning'.tick = cur[t]
                    /\ IF last_reasoning'.health = "pass"
                       THEN last_action_plan' = 0
                       ELSE last_action_plan' = cur[t]]_vars

\* The second tick ended with a pass report and no plan is retained.
PlanOnlyWhenUnhealthyWitness ==
    /\ last_reasoning.health = "pass"
    /\ last_reasoning.tick >= 2
    /\ last_action_plan = 0
    /\ tickCompleted

\* C6: after a tick whose topology build failed, no Observation of an earlier
\* tick is served any more.
NoStaleObservation ==
    observeFailed => /\ last_observation = 0
                     /\ get_status.last_observation = 0
                     /\ get_last_observation.code = 404

Built == topo.status # "pending"

PodNodeRefsResolve ==
    (topo.status = "ok" /\ listing.failed = {})
      => \A p \in Range(topo.graph.pods) :
           \/ p.node_id = "node-unscheduled"
           \/ \E n \in Range(topo.graph.compute_nodes) : n.id = p.node_id

\* The addresses the listing holds for the Endpoints object of a service.
ServiceAddressSlots(svc) ==
    UNION { UNION { { <<e, j, k>> : k \in 1..Len(listing.endpoints[e].subsets[j]) } :
                    j \in 1..Len(listing.endpoints[e].subsets) } :
            e \in { d \in 1..Len(listing.endpoints) :
                      /\ listing.endpoints[d].namespace = svc.namespace
                      /\ listing.endpoints[d].name = svc.name } }

SlotAddress(slot) == listing.endpoints[slot[1]].subsets[slot[2]][slot[3]]

\* C10: in every built graph every id of a ServiceNode's endpoint_pod_ids is
\* the id of a PodNode of the graph whose ip is an address of that service's
\* Endpoints, and an address that is no pod's ip contributes no id.
EndpointPodIdsResolve ==
    topo.status = "ok"
      => \A svc \in Range(topo.graph.services) :
           /\ \A id \in Range(svc.endpoint_pod_ids) :
                \E p \in Range(topo.graph.pods), slot \in ServiceAddressSlots(svc) :
                  /\ p.id = id
                  /\ p.ip # None
                  /\ p.ip = SlotAddress(slot)
           /\ Len(svc.endpoint_pod_ids)
                = Cardinality({slot \in ServiceAddressSlots(svc) :
                                 \E p \in Range(topo.graph.pods) :
                                   p.ip = SlotAddress(slot)})

\* A service resolved one address to a pod and dropped another one.
EndpointPodIdsResolveWitness ==
    /\ topo.status = "ok"
    /\ \E svc \in Range(topo.graph.services) :
         /\ svc.endpoint_pod_ids # <<>>
         /\ Len(svc.endpoint_pod_ids) < Cardinality(ServiceAddressSlots(svc))

(***************************************************************************)
(* Communication flows                                                     *)
(***************************************************************************)
\* The policies of the built graph whose affected_pod_ids hold the pod's id.
PoliciesAffecting(pod) ==
    {np \in Range(topo.graph.network_policies) :
        pod.id \in Range(np.affected_pod_ids)}

\* C11: for every pod and declared container port of a built graph, the
\* wildcard-source flow to that pod and port has allowed = true iff no policy
\* affects the pod, or some ingress rule of a policy affecting the pod has no
\* port restriction or lists that port.
WildcardFlowAllowedIffRule ==
    topo.status = "ok"
      => \A pod \in Range(topo.graph.pods) :
           \A port \in Range(pod.ports) :
             \A f \in Range(topo.graph.communication_flows) :
               (f.source_id = "*" /\ f.destination_id = pod.id /\ f.port = port)
                 => (f.allowed
                       <=> \/ PoliciesAffecting(pod) = {}
                           \/ \E np \in PoliciesAffecting(pod) :
                                \E rule \in Range(np.ingress_rules) :
                                  rule.ports = <<>> \/ port \in Range(rule.ports))

\* C12: in a built graph whose pod ids are pairwise distinct, no flow has as
\* its source or destination a pod whose ip is absent, whether or not that pod
\* declares container ports.
NoFlowTouchesPodWithoutIp ==
    (/\ topo.status = "ok"
     /\ \A i, j \in 1..Len(topo.graph.pods) :
          topo.graph.pods[i].id = topo.graph.pods[j].id => i = j)
      => \A f \in Range(topo.graph.communication_flows) :
           \A pod \in Range(topo.graph.pods) :
             pod.id \in {f.source_id, f.destination_id} => Truthy(pod.ip)

OverallHealthIsWorstStatus ==
    report.checks # <<>>
      => report.overall_health
           = IF \E c \in Range(report.checks) : c.status \in {"fail", "error"}
             THEN "fail"
             ELSE IF \E c \in Range(report.checks) : c.status = "warning"
             THEN "warning"
             ELSE "pass"

\* C15: run_all_checks never raises: every call returns a report that holds
\* all eleven checks, a failed check among them with status error and the
\* message of its failure.
RunAllChecksNeverRaises ==
    diag.last.called
      => /\ diag.last.returned
         /\ Len(diag.last.report.checks) = 11
         /\ \A c \in Range(diag.last.report.checks) :
              c.status = "error" => c.message # None

\* C16: two calls of run_all_checks on the same TopologyGraph return reports
\* with identical checks (names, statuses, messages), summary and
\* overall_health.
RunsOnSameTopologyAgree ==
    diag.prev.called
      => /\ diag.prev.returned
         /\ diag.last.returned
         /\ diag.prev.report = diag.last.report

\* The graph handed to run_all_checks holds a control-plane node whose Ready
\* condition is not "True".
ControlPlaneNotReady ==
    \E n \in Range(topo.graph.compute_nodes) :
      /\ n.role = "control-plane"
      /\ \E c \in Range(n.conditions) : c.type = "Ready" /\ c.status # "True"

\* C17: run on a graph with a control-plane node whose Ready condition is not
\* "True", run_all_checks evaluates control_plane_health to status fail,
\* severity critical, with a remediation, and the report's overall_health is
\* fail.
ControlPlaneNotReadyFails ==
    (diag.last.called /\ ControlPlaneNotReady)
      => /\ \E c \in Range(diag.last.checks) :
              /\ c.name = "control_plane_health"
              /\ c.status = "fail"
              /\ c.severity = "critical"
              /\ c.remediation_actions # <<>>
         /\ diag.last.returned
         /\ diag.last.report.overall_health = "fail"

(***************************************************************************)
(* Context buffer                                                          *)
(***************************************************************************)
\* C18: after any sequence of add, query and clear operations the buffer
\* holds at most max_snapshots snapshots, whatever their timestamps and the
\* retention period.
BufferNeverExceedsMax == Len(buffer.snapshots) <= buffer.max_snapshots

\* A query was answered from a full buffer that had been given more
\* snapshots than it can hold.
BufferNeverExceedsMaxWitness ==
    /\ Len(buffer.snapshots) = buffer.max_snapshots
    /\ added > buffer.max_snapshots
    /\ recent.valid

\* C19: for every hours >= 0, get_recent(hours) returns exactly the stored
\* snapshots whose timestamp is at or after now - hours, in stored order.
GetRecentReturnsWindow ==
    (recent.valid /\ recent.hours.given)
      => recent.result
           = SelectSeq(buffer.snapshots,
                       LAMBDA s : s.timestamp >= now - recent.hours.value)

\* The number of expired snapshots at the head of the buffer.
ExpiredAtHead ==
    CHOOSE m \in 0..Len(buffer.snapshots) :
        /\ \A i \in 1..m :
             buffer.snapshots[i].timestamp < now - buffer.retention_hours
        /\ m < Len(buffer.snapshots)
             => buffer.snapshots[m + 1].timestamp >= now - buffer.retention_hours

\* C20: add() drops the expired snapshots at the head first and evicts for
\* capacity only then: added to a buffer holding max_snapshots non-expired
\* snapshots, the new snapshot evicts exactly the earliest-inserted one and
\* the others stay in insertion order, and no non-expired snapshot is evicted
\* while an expired one is at the head.
AddPrunesBeforeEvicting ==
    [][added' = added + 1
         => LET old == buffer.snapshots
                dropped == Len(old) + 1 - Len(buffer'.snapshots)
            IN /\ dropped \in 0..Len(old)
               /\ buffer'.snapshots
                    = SubSeq(old, dropped + 1, Len(old))
                        \o <<buffer'.snapshots[Len(buffer'.snapshots)]>>
               /\ buffer'.snapshots[Len(buffer'.snapshots)].id = added'
               /\ IF ExpiredAtHead = 0 /\ Len(old) = buffer.max_snapshots
                  THEN dropped = 1
                  ELSE dropped = ExpiredAtHead]_vars

\* Three snapshots were added to a buffer of two within the same hour: none
\* had expired, the first one was evicted and the other two are kept in
\* insertion order.
AddPrunesBeforeEvictingWitness ==
    /\ buffer.max_snapshots = 2
    /\ now = 0
    /\ added = 3
    /\ Len(buffer.snapshots) = 2
    /\ buffer.snapshots[1].id = 2
    /\ buffer.snapshots[2].id = 3

(***************************************************************************)
(* Cluster watcher and status requests                                     *)
(***************************************************************************)
SnapshotsInOrder(buf) ==
    \A i, j \in 1..Len(buf.snapshots) :
        i < j => buf.snapshots[i].timestamp <= buf.snapshots[j].timestamp

\* C21: however the watcher's polls and the status requests interleave,
\* the stored snapshots are in non-decreasing timestamp order, and an add
\* leaves no snapshot older than the retention window in the buffer.
SnapshotsStayInOrder ==
    /\ SnapshotsInOrder(buffer)
    /\ [][/\ SnapshotsInOrder(buffer')
          /\ added' = added + 1 =>
                \A i \in 1..Len(buffer'.snapshots) :
                    buffer'.snapshots[i].timestamp >= now - buffer.retention_hours]_vars

\* Both callers have stored snapshots taken at different times, an older
\* snapshot was pruned, and a request is in flight.
SnapshotsStayInOrderWitness ==
    /\ added = MaxAdds
    /\ Len(buffer.snapshots) = 2
    /\ buffer.snapshots[1].by # buffer.snapshots[2].by
    /\ buffer.snapshots[1].timestamp < buffer.snapshots[2].timestamp
    /\ poll["request"] = "pods"

(***************************************************************************)
(* Events by type                                                          *)
(***************************************************************************)
EventIdentity(e) == <<e.namespace, e.name>>

\* The events of the snapshots inside the window of `hours` hours before now.
EventsInWindow(hours) ==
    LET h == IF hours.given THEN hours.value ELSE buffer.retention_hours
    IN UNION {Range(buffer.snapshots[i].events) :
                 i \in {k \in 1..Len(buffer.snapshots) :
                           buffer.snapshots[k].timestamp >= now - h}}

\* C22: get_events_by_type(type, hours) returns only events of that type
\* from snapshots inside the window, at most one per event identity and
\* then that identity's most recent occurrence, most recent first.
EventsByTypeDeduplicated ==
    recent.valid =>
        LET res == recent.result
            win == {e \in EventsInWindow(recent.hours) : e.type = recent.event_type}
        IN /\ \A i \in 1..Len(res) : res[i] \in win
           /\ \A i, j \in 1..Len(res) :
                 i < j => /\ EventIdentity(res[i]) # EventIdentity(res[j])
                          /\ res[i].timestamp >= res[j].timestamp
           /\ \A i \in 1..Len(res) : \A e \in win :
                 EventIdentity(e) = EventIdentity(res[i])
                     => e.timestamp <= res[i].timestamp

(***************************************************************************)
(* Reasoning loop: the phases and the sleeps of a tick                     *)
(***************************************************************************)
\* C23: in every tick Observe is entered when the tick begins, Reason only
\* once that tick's Observe has finished, no phase is entered again after
\* it was left, and Act is entered exactly in the step in which the tick's
\* Reason phase completes with an overall_health other than pass.
PhasesInOrder ==
    [][/\ \A t \in Tasks :
            /\ (pc'[t] = "observe" /\ pc[t] # "observe")
                  => /\ pc[t] \in {"created", "sleep", "backoff"}
                     /\ tick' = tick + 1
                     /\ cur'[t] = tick'
                     /\ phase' = "observe"
            /\ (pc'[t] = "reason" /\ pc[t] # "reason")
                  => /\ pc[t] = "observe"
                     /\ cur'[t] = cur[t]
                     /\ last_observation' = cur[t]
                     /\ phase' = "reason"
            /\ (pc[t] = "observe" /\ pc'[t] # "observe")
                  => pc'[t] \in {"reason", "backoff"}
            /\ (pc[t] = "reason" /\ pc'[t] # "reason")
                  => pc'[t] \in {"sleep", "backoff"} /\ cur'[t] = cur[t]
       /\ lastOp' = "act"
            <=> \E t \in Tasks :
                   /\ pc[t] = "reason" /\ pc'[t] # "reason"
                   /\ last_reasoning'.tick = cur[t]
                   /\ last_reasoning'.health # "pass"
                   /\ phase' = "act"]_vars

\* The second tick's Reason phase has just completed with health warn and
\* its Act phase was entered.
PhasesInOrderWitness ==
    /\ lastOp = "act"
    /\ last_reasoning = [tick |-> 2, health |-> "warn"]
    /\ last_observation = 2
    /\ last_action_plan = 2

\* The step in which a phase of t's tick raises: Observe ends without an
\* Observation of this tick, Reason without a Reasoning of it, or an Act that
\* was due without an ActionPlan of it.
PhaseRaised(t) ==
    \/ /\ pc[t] = "observe" /\ pc'[t] # "observe"
       /\ last_observation' # cur[t]
    \/ /\ pc[t] = "reason" /\ pc'[t] # "reason"
       /\ \/ last_reasoning'.tick # cur[t]
          \/ last_reasoning'.health # "pass" /\ last_action_plan' # cur[t]

\* A task in the sleep that follows a failed tick, with the loop running and
\* no stop() having cancelled it (and the model's tick bound not reached).
BackoffPending(t) ==
    /\ pc[t] = "backoff" /\ t \notin finished
    /\ running /\ ~cancelReq[t]
    /\ tick < MaxTicks

\* C24: a phase that raises leaves its task alive and _running as it was and
\* puts the task into a sleep of the whole interval; the task leaves that
\* sleep only into its next tick, and unless a stop() intervenes it does not
\* stay in it for ever.
FailedTickBacksOff ==
    /\ [][\A t \in Tasks :
            PhaseRaised(t)
               => /\ pc'[t] = "backoff"
                  /\ t \notin finished'
                  /\ running' = running
                  /\ timing'.slept
                  /\ timing'.seconds = Interval]_vars
    /\ [][\A t \in Tasks :
            (BackoffPending(t) /\ pc'[t] # "backoff")
               => pc'[t] = "observe" /\ cur'[t] = tick + 1]_vars
    /\ []<>(\A t \in Tasks : ~BackoffPending(t))

\* The second tick failed while the loop runs: its task sleeps the interval.
FailedTickBacksOffWitness ==
    \E t \in Tasks :
        /\ pc[t] = "backoff" /\ cur[t] = 2 /\ t \notin finished
        /\ running
        /\ timing = Backoff

\* C25: a tick that completes after d seconds sleeps max(0, interval - d),
\* which is never negative and 0 when d >= interval, and a task begins a
\* tick only out of the sleep that ended its previous one, so no task is
\* ever inside two ticks.
SleepsTheRemainder ==
    [][/\ \A t \in Tasks :
            (pc[t] = "reason" /\ pc'[t] = "sleep")
               => /\ timing'.slept
                  /\ timing'.cycle_duration \in Durations
                  /\ timing'.seconds >= 0
                  /\ timing'.seconds + timing'.cycle_duration
                        = (IF timing'.cycle_duration >= Interval
                           THEN timing'.cycle_duration ELSE Interval)
       /\ \A t \in Tasks :
            (cur'[t] # cur[t])
               => /\ pc[t] \in {"created", "sleep", "backoff"}
                  /\ pc'[t] = "observe"
                  /\ cur'[t] > cur[t]]_vars

\* A second tick has just completed after more than the interval: no wait.
SleepsTheRemainderWitness ==
    \E t \in Tasks :
        /\ pc[t] = "sleep" /\ cur[t] = 2
        /\ timing = [slept |-> TRUE, cycle_duration |-> Interval + 1, seconds |-> 0]

(***************************************************************************)
(* Namespace connectivity                                                  *)
(***************************************************************************)
\* A peer of one of the policy's ingress rules is scoped by a namespace
\* selector that the labels of namespace src satisfy.
AdmitsNamespace(np, src) ==
    \E rule \in Range(np.ingress) : \E peer \in Range(rule.from_) :
        /\ peer.namespace_selector.given
        /\ matches_selector(NamespaceLabels(src), peer.namespace_selector.match_labels)

\* The ids of the listed policies of namespace dst that declare Ingress and
\* admit no namespace-scoped peer from src, in listing order.
BlockingPolicies(src, dst) ==
    LET blocking == SelectSeq(listing.netpols,
                       LAMBDA np : /\ np.namespace = dst
                                   /\ "Ingress" \in Range(np.policy_types)
                                   /\ ~AdmitsNamespace(np, src))
    IN [k \in 1..Len(blocking) |->
           "netpol-" \o blocking[k].namespace \o "-" \o blocking[k].name]

\* C26: a built graph has one NamespaceConnectivity entry per ordered pair
\* of pod namespaces; its blocking_policies are the policies of dst that
\* declare Ingress and have no rule admitting a namespace-scoped peer from
\* src, and allowed says that there is none.
ConnectivityFollowsPolicies ==
    topo.status = "ok" =>
        LET namespaces == {listing.pods[i].namespace : i \in 1..Len(listing.pods)}
        IN \A src \in namespaces, dst \in namespaces :
              \E e \in topo.graph.namespace_connectivity :
                 /\ e.source_namespace = src
                 /\ e.destination_namespace = dst
                 /\ e.blocking_policies = BlockingPolicies(src, dst)
                 /\ e.allowed = (e.blocking_policies = <<>>)

(***************************************************************************)
(* Reasoning loop: which tick the retained results belong to               *)
(***************************************************************************)
\* C27: whenever an Observation and a Reasoning are both retained, they
\* were produced by the same tick.
RetainedResultsOfOneTick ==
    (last_observation # 0 /\ last_reasoning # NoReasoning)
        => last_reasoning.tick = last_observation

(***************************************************************************)
(* Pod ids                                                                 *)
(***************************************************************************)
\* C28: in a built graph two pods listed with distinct (namespace, name)
\* identities have distinct PodNode ids.
PodIdsInjective ==
    topo.status = "ok" =>
        \A i, j \in 1..Len(topo.graph.pods) :
            (topo.graph.pods[i].namespace # topo.graph.pods[j].namespace
             \/ topo.graph.pods[i].name # topo.graph.pods[j].name)
                => topo.graph.pods[i].id # topo.graph.pods[j].id

(***************************************************************************)
(* Reasoning loop: restart                                                 *)
(***************************************************************************)
\* A task that start() has created and that has not run yet, with the loop
\* running and no stop() having cancelled it (and the model's tick bound
\* not reached).
CreatedPending(t) ==
    /\ pc[t] = "created" /\ t \notin finished
    /\ running /\ ~cancelReq[t]
    /\ tick < MaxTicks

\* A start() has just created task t, after a first task, with no stop()
\* call still awaiting: every stop() had returned when start() was called.
Restarted(t) ==
    /\ lastOp = "start" /\ task = t /\ t > 1
    /\ pc[t] = "created"
    /\ stopWaiting = {}

\* C29: after a start() that follows a returned stop(), the new task
\* eventually begins a tick (up to the model's tick bound).
RestartAlwaysBeginsTick ==
    \A t \in Tasks :
        Restarted(t) ~> (pc[t] = "observe" \/ tick = MaxTicks)

\* C29 (amended): a start() called after a stop() has returned creates a new
\* task and sets _running; the new task's first step begins a tick in the
\* Observe phase, and unless a stop() is called before that step the task
\* does not wait for it for ever; the start() and the beginning of the tick
\* leave the retained observation, reasoning and action plan as they were.
RestartBeginsTick ==
    /\ [][(stopped /\ lastOp' = "start")
            => /\ running'
               /\ task' # 0 /\ task' # task
               /\ pc[task'] = "none" /\ pc'[task'] = "created"
               /\ task' \notin finished'
               /\ UNCHANGED RetainedResults]_vars
    /\ [][\A t \in Tasks :
            (CreatedPending(t) /\ pc'[t] # "created")
               => /\ pc'[t] = "observe" /\ phase' = "observe"
                  /\ UNCHANGED <<last_observation, last_reasoning,
                                 last_action_plan>>]_vars
    /\ []<>(\A t \in Tasks : ~CreatedPending(t))

\* After a tick that retained results the loop was stopped, every stop() has
\* returned, and a start() has just created the second task.
RestartBeginsTickWitness ==
    /\ lastOp = "start" /\ running
    /\ task = 2 /\ pc[2] = "created"
    /\ 1 \in finished /\ stopWaiting = {}
    /\ last_observation = 1 /\ last_reasoning.tick = 1

LoopTerminated == \A t \in Tasks : ~Alive(t)

WatcherTerminated == poll["watcher"] = "done" /\ ~life.watcher_cancel

\* C30: the shutdown is ordered: when the Kubernetes client is disconnected
\* and the context buffer cleared, every task of the reasoning loop and the
\* watcher task have ended; and once the client is disconnected no tick
\* begins or goes on, no watcher poll runs and no snapshot is added.
ShutdownIsOrdered ==
    /\ [][~life'.connected => (LoopTerminated' /\ WatcherTerminated' /\ ~running')]_vars
    /\ [][~life.connected
            => UNCHANGED <<tick, cur, pc, finished, phase, poll, added, buffer>>]_vars

ShutdownIsOrderedWitness ==
    /\ life.pc = "done" /\ ~life.connected
    /\ task = 1 /\ 1 \in finished /\ cur[1] > 0 /\ pc[1] = "reason"
    /\ poll["watcher"] = "done"
    /\ added > 0 /\ buffer.snapshots = <<>>

====
